---------------------------- MODULE Spec2Model ----------------------------
(***************************************************************************)
(* Model of eu_rules_metadata_extractor2.py: the per-CELEX worker          *)
(* process_celex (graph query, label lookups, normalisation, title         *)
(* fallback) and the two orchestrators get_metadata_sequential and         *)
(* get_metadata_parallel driven by main.                                   *)
(*                                                                         *)
(* A Python str is a sequence of one-character strings.  An identifier, a  *)
(* header cell and the None object are opaque, so each is a sequence of    *)
(* one symbol.                                                             *)
(***************************************************************************)
EXTENDS Integers, Sequences, FiniteSets, TLC

(***************************************************************************)
(* Bounds of the model                                                     *)
(***************************************************************************)
\* longest identifier list main is run on (Spec)
MaxIds == 2
\* largest --workers argument tried
MaxWorkers == 2
\* most triples in the graph of the observed process_celex call (SpecCall)
MaxTriples == 2
\* longest value list handed to the normalisation step (SpecNorm)
MaxLen == 3
\* longest reference URI handed to get_string_label (SpecUri)
MaxUriLen == 5
\* most records in the identifier file (SpecLoad)
MaxRecords == 3

(***************************************************************************)
(* Python str: ordering, join, split                                       *)
(***************************************************************************)
\* ord(c) of the characters that occur in values
CharCode(c) ==
    CASE c = " " -> 32
      [] c = "/" -> 47
      [] c = "1" -> 49
      [] c = "2" -> 50
      [] c = "3" -> 51
      [] c = "4" -> 52
      [] c = "a" -> 97
      [] c = "b" -> 98
      [] c = "h" -> 104
      [] c = "|" -> 124

\* a < b for two str: code-point lexicographic order
StrLess(a, b) ==
    \E k \in 1..(Len(b)) :
        /\ \A j \in 1..(k - 1) : j <= Len(a) /\ a[j] = b[j]
        /\ \/ k > Len(a)
           \/ k <= Len(a) /\ CharCode(a[k]) < CharCode(b[k])

\* set(v)
ToSet(v) == { v[i] : i \in 1..Len(v) }

\* sorted(S): ascending list of the elements of a set of str
RECURSIVE Sorted(_)
Sorted(S) ==
    IF S = {} THEN <<>>
    ELSE LET m == CHOOSE x \in S : \A y \in S \ {x} : StrLess(x, y)
         IN  <<m>> \o Sorted(S \ {m})

\* sep.join(parts)
RECURSIVE Join(_, _)
Join(parts, sep) ==
    IF parts = <<>> THEN <<>>
    ELSE IF Len(parts) = 1 THEN parts[1]
    ELSE parts[1] \o sep \o Join(Tail(parts), sep)

\* s.split(c) for a one-character separator: always at least one part
RECURSIVE Split(_, _)
Split(s, c) ==
    IF \A i \in 1..Len(s) : s[i] # c THEN <<s>>
    ELSE LET k == CHOOSE i \in 1..Len(s) :
                      s[i] = c /\ \A j \in 1..(i - 1) : s[j] # c
         IN  <<SubSeq(s, 1, k - 1)>> \o Split(SubSeq(s, k + 1, Len(s)), c)

\* s[:n]
Prefix(s, n) == SubSeq(s, 1, IF Len(s) < n THEN Len(s) ELSE n)

\* the separator ' | ' of the multi-value fields
FieldSep == <<" ", "|", " ">>

\* the empty str
Empty == <<>>


(***************************************************************************)
(* Constants and mappings                                                  *)
(***************************************************************************)
metadata_header_row ==
    << "celex", "author", "responsible_body", "form", "title", "addressee",
       "date_adoption", "date_in_force", "date_end_validity",
       "directory_code", "procedure_code", "eurovoc", "subject_matters" >>

Keys == { metadata_header_row[n] : n \in 1..Len(metadata_header_row) }

\* key -> predicate URI (the URIs are opaque; "cdm:" stands for CDM_PREFIX)
property_mapping ==
    [ k \in Keys |->
        CASE k = "celex"             -> "cdm:resource_legal_id_celex"
          [] k = "author"            -> "cdm:work_created_by_agent"
          [] k = "responsible_body"  -> "cdm:regulation_service_responsible"
          [] k = "form"              -> "cdm:resource_legal_type"
          [] k = "title"             -> "cdm:work_title"
          [] k = "addressee"         -> "cdm:resource_legal_addresses_country"
          [] k = "date_adoption"     -> "cdm:work_date_document"
          [] k = "date_in_force"     -> "cdm:resource_legal_date_entry-into-force"
          [] k = "date_end_validity" -> "cdm:resource_legal_date_end-of-validity"
          [] k = "directory_code"    -> "cdm:resource_legal_is_about_concept_directory-code"
          [] k = "procedure_code"    -> "cdm:procedure_code_interinstitutional_basis_legal"
          [] k = "eurovoc"           -> "cdm:work_is_about_concept_eurovoc"
          [] k = "subject_matters"   -> "cdm:resource_legal_is_about_subject-matter" ]

\* the header as a table row: one opaque cell per key
HeaderRow == [ n \in 1..Len(metadata_header_row) |-> << metadata_header_row[n] >> ]

\* range(4) of the three retry loops
MaxAttempts == 4

\* the object None (a meta tag without a content attribute)
NoneValue == << "None" >>

(***************************************************************************)
(* get_string_label                                                        *)
(***************************************************************************)
\* get_string_label without the test of the key: every URI is shortened
LabelUri_AnyKey(uri, pred) ==
    LET parts == Split(uri, "/")
        dc    == Prefix(parts[Len(parts)], 2)
    IN  Join(SubSeq(parts, 1, Len(parts) - 1) \o << dc >>, << "/" >>)

\* the URI whose label is queried (u)
LabelUri(uri, pred) ==
    IF pred = "directory_code"
    THEN LET parts == Split(uri, "/")
             dc    == Prefix(parts[Len(parts)], 2)
         IN  Join(SubSeq(parts, 1, Len(parts) - 1) \o << dc >>, << "/" >>)
    ELSE uri

\* One attempt of the label query: err (sparql.query().convert() or the
\* access to the bindings raises), or the list of bindings of the result,
\* each binding being its label value.  A script gives the outcome of
\* attempts 1..4 of one request.  net counts the queries issued and lists
\* the arguments of the calls of backoff_sleep.
NoNet == [ queries |-> 0, sleeps |-> << >> ]

\* every attempt sending its request twice
Issued_Twice(net) == [ net EXCEPT !.queries = @ + 2 ]

Issued(net) == [ net EXCEPT !.queries = @ + 1 ]

\* no sleep once the last attempt has failed
Slept_NotAfterLast(net, attempt) ==
    IF attempt = MaxAttempts - 1 THEN net
    ELSE [ net EXCEPT !.sleeps = Append(@, attempt) ]

Slept(net, attempt) == [ net EXCEPT !.sleeps = Append(@, attempt) ]

\* the label loop without the test for an empty list of bindings:
\* bindings[0] raises and the attempt counts as failed
RECURSIVE LabelLoop_NoEmptyTest(_, _, _)
LabelLoop_NoEmptyTest(script, attempt, net) ==
    IF attempt = MaxAttempts
    THEN [ ret |-> Empty, net |-> net ]
    ELSE LET res == script[attempt + 1]
         IN  IF res.err \/ res.bindings = << >>
             THEN LabelLoop_NoEmptyTest(script, attempt + 1,
                                        Slept(Issued(net), attempt))
             ELSE [ ret |-> res.bindings[1], net |-> Issued(net) ]

RECURSIVE LabelLoop(_, _, _)
LabelLoop(script, attempt, net) ==
    IF attempt = MaxAttempts
    THEN [ ret |-> Empty, net |-> net ]
    ELSE LET res == script[attempt + 1]
         IN  IF res.err
             THEN LabelLoop(script, attempt + 1, Slept(Issued(net), attempt))
             ELSE [ ret |-> IF res.bindings = << >> THEN Empty
                            ELSE res.bindings[1],
                    net |-> Issued(net) ]

(***************************************************************************)
(* execute_sparql_turtle                                                   *)
(***************************************************************************)
\* a Turtle document: whether rdflib can parse it, and the triples it holds
NoText == [ wellformed |-> FALSE, triples |-> {} ]

\* One attempt of the CONSTRUCT query: err (an exception) or the payload
\* text.  The result tells the -1 sentinel (sentinel = TRUE) from a payload.
RECURSIVE TurtleLoop(_, _, _)
TurtleLoop(script, attempt, net) ==
    IF attempt = MaxAttempts
    THEN [ sentinel |-> TRUE, text |-> NoText, net |-> net ]
    ELSE LET res == script[attempt + 1]
         IN  IF res.err
             THEN TurtleLoop(script, attempt + 1, Slept(Issued(net), attempt))
             ELSE [ sentinel |-> FALSE, text |-> res.text, net |-> Issued(net) ]

(***************************************************************************)
(* get_title_fallback                                                      *)
(***************************************************************************)
\* One attempt of the page request: status "exc" (the request or the parser
\* raises), "5xx", or "ok" (any status below 500) with a page: whether it
\* holds the English eli:title meta tag, and the tag's content (a str, or
\* None when the tag has no content attribute).
RECURSIVE TitleLoop(_, _, _)
TitleLoop(script, attempt, net) ==
    IF attempt = MaxAttempts
    THEN [ ret |-> Empty, net |-> net ]
    ELSE LET r == script[attempt + 1]
         IN  IF r.status = "exc" \/ r.status = "5xx"
             THEN TitleLoop(script, attempt + 1, Slept(Issued(net), attempt))
             ELSE [ ret |-> IF r.meta THEN r.content ELSE Empty,
                    net |-> Issued(net) ]

(***************************************************************************)
(* State                                                                   *)
(***************************************************************************)
VARIABLES
    celex_nums,   \* main: the identifier list read_celex_list returned
    workers,      \* args.workers
    main_pc,      \* where main is
    rows,         \* the orchestrator's list rows (header first)
    pbar,         \* the tqdm bar's count
    out,          \* the tables written to OUT_METADATA_FILE, in order
    w,            \* one process_celex call per position of celex_nums
    clients,      \* the SPARQLWrapper objects created so far
    endpoint,     \* what a mocked endpoint answers each request with
    log,          \* what was observed of one process_celex call
    fin,          \* input of the pure function under check
    fout          \* its result

vars == << celex_nums, workers, main_pc, rows, pbar, out, w, clients,
           endpoint, log, fin, fout >>

\* what no action of main or of process_celex writes
env == << endpoint, log, fin, fout >>

\* an identifier is an opaque str
Ident(n) == << << "A" >>, << "B" >>, << "C" >>, << "D" >>, << "E" >> >>[n]

\* int(args.workers) taken as it is
MAX_WORKERS_Unclamped == workers

\* line 62: MAX_WORKERS = max(1, int(args.workers))
MAX_WORKERS == IF workers < 1 THEN 1 ELSE workers

\* the minimal row built one field short: [celex_num] + [''] * (len - 2)
MinimalRow_Short(celex_num) ==
    [ n \in 1..(Len(metadata_header_row) - 1) |->
        IF n = 1 THEN celex_num ELSE Empty ]

\* [celex_num] + [''] * (len(metadata_header_row) - 1)
MinimalRow(celex_num) ==
    [ n \in 1..Len(metadata_header_row) |-> IF n = 1 THEN celex_num ELSE Empty ]

\* current_row as process_celex creates it
EmptyCurrentRow == [ k \in Keys |-> << >> ]

\* a process_celex call that has not been made yet
NoCall == [ pc |-> "new", sparql |-> 0, todo |-> {}, cur |-> EmptyCurrentRow,
            ret |-> << >>, exc |-> FALSE, at |-> 0 ]

\* nothing observed yet: the kinds of the requests made, in order; the last
\* request with its script and outcome; whether a graph was parsed, and the
\* graph; the triples in
\* the order the loop took them; the label each reference-valued triple
\* resolved to; what get_title_fallback returned
NoLog == [ calls |-> << >>, last |-> << >>, parsed |-> FALSE, graph |-> {},
           order |-> << >>, resolved |-> {}, fallback |-> << >> ]

\* a SPARQLWrapper that has been given no query yet
NoQuery == [ kind |-> "none", arg |-> Empty ]

(***************************************************************************)
(* process_celex                                                           *)
(***************************************************************************)
\* one client kept for all calls: every call after the first takes the
\* client that is already there
NewClient_Shared == IF clients = << >> THEN Len(clients) + 1 ELSE Len(clients)

\* SPARQLWrapper(endpoint_url): a new object, next in the list of clients
NewClient == Len(clients) + 1

\* set(property_mapping.values())
pm_values == { property_mapping[k] : k \in Keys }

\* next(k for k, v in property_mapping.items() if v == p_str)
KeyOf(p_str) == CHOOSE k \in Keys : property_mapping[k] = p_str

\* whether the triple makes process_celex call get_string_label
NeedsLabel(t) == t.p \in pm_values /\ ~ t.o.lit

\* get_string_label with range(1, 4) for range(4)
get_string_label_Short(uri, pred, script) ==
    [ u |-> LabelUri(uri, pred), loop |-> LabelLoop(script, 1, NoNet) ]

\* get_string_label with bindings[0] read without the test for no bindings
get_string_label_NoEmptyTest(uri, pred, script) ==
    [ u |-> LabelUri(uri, pred), loop |-> LabelLoop_NoEmptyTest(script, 0, NoNet) ]

\* get_string_label(sparql, uri, pred) under a script of attempt outcomes:
\* the URI put in the query (u) and the outcome of the retry loop
get_string_label(uri, pred, script) ==
    [ u |-> LabelUri(uri, pred), loop |-> LabelLoop(script, 0, NoNet) ]

\* execute_sparql_turtle with range(1, 4) for range(4)
execute_sparql_turtle_Short(script) == TurtleLoop(script, 1, NoNet)

\* execute_sparql_turtle(sparql, query) under a script of attempt outcomes
execute_sparql_turtle(script) == TurtleLoop(script, 0, NoNet)

\* get_title_fallback with range(1, 4) for range(4)
get_title_fallback_Short(script) == TitleLoop(script, 1, NoNet)

\* get_title_fallback(celex) under a script of attempt outcomes
get_title_fallback(script) == TitleLoop(script, 0, NoNet)

\* the normalisation loop joining the list as it was accumulated
NormalizeField_Unsorted(v) ==
    IF v = << >> THEN Empty
    ELSE IF Len(v) = 1 THEN v[1]
    ELSE Join(v, FieldSep)

\* one element of current_row after the normalisation loop
NormalizeField(v) ==
    IF v = << >> THEN Empty
    ELSE IF Len(v) = 1 THEN v[1]
    ELSE Join(Sorted(ToSet(v)), FieldSep)

\* the loop appending a resolved label only when it is not ''
AddTriple_SkipEmpty(cur, t, lbl) ==
    IF t.p \in pm_values /\ (t.o.lit \/ lbl # Empty)
    THEN LET key == KeyOf(t.p)
         IN  [ cur EXCEPT ![key] = Append(@, IF t.o.lit THEN t.o.v ELSE lbl) ]
    ELSE cur

\* the body of the loop over g.triples for one triple, lbl being what
\* get_string_label returns for it
AddTriple(cur, t, lbl) ==
    IF t.p \in pm_values
    THEN LET key == KeyOf(t.p)
         IN  [ cur EXCEPT ![key] = Append(@, IF t.o.lit THEN t.o.v ELSE lbl) ]
    ELSE cur

\* the row returned with every field, celex too, taken from current_row
HeaderOrder_FromGraph(cur, celex_num) ==
    [ n \in 1..Len(metadata_header_row) |-> cur[metadata_header_row[n]] ]

\* the row returned, in header order
HeaderOrder(cur, celex_num) ==
    [ n \in 1..Len(metadata_header_row) |->
        IF metadata_header_row[n] # "celex" THEN cur[metadata_header_row[n]]
        ELSE celex_num ]

\* lines 181-203: the call starts, with a client and a current_row of its own
BeginCall(i) ==
    /\ clients' = Append(clients, [ fmt |-> "TURTLE", query |-> NoQuery ])
    /\ w' = [ w EXCEPT ![i] = [ NoCall EXCEPT !.pc = "graph",
                                              !.sparql = NewClient ] ]

\* process_celex without the test for the -1 sentinel: the sentinel reaches
\* Graph().parse, which raises
GraphQuery_NoSentinelTest(i, script) ==
    /\ w[i].pc = "graph"
    /\ LET r == execute_sparql_turtle(script)
       IN  /\ clients' = [ clients EXCEPT ![w[i].sparql] =
                             [ fmt   |-> "TURTLE",
                               query |-> [ kind |-> "construct",
                                           arg  |-> celex_nums[i] ] ] ]
           /\ w' = [ w EXCEPT ![i] =
                       IF r.sentinel \/ ~ r.text.wellformed
                       THEN [ @ EXCEPT !.pc = "done", !.exc = TRUE ]
                       ELSE [ @ EXCEPT !.pc = "triples",
                                       !.todo = r.text.triples ] ]

\* lines 205-212: the CONSTRUCT query with its retries, then the parse
GraphQuery(i, script) ==
    /\ w[i].pc = "graph"
    /\ LET r == execute_sparql_turtle(script)
       IN  /\ clients' = [ clients EXCEPT ![w[i].sparql] =
                             [ fmt   |-> "TURTLE",
                               query |-> [ kind |-> "construct",
                                           arg  |-> celex_nums[i] ] ] ]
           /\ w' = [ w EXCEPT ![i] =
                       IF r.sentinel
                       THEN [ @ EXCEPT !.pc = "done",
                                       !.ret = MinimalRow(celex_nums[i]) ]
                       ELSE IF ~ r.text.wellformed
                       THEN [ @ EXCEPT !.pc = "done", !.exc = TRUE ]
                       ELSE [ @ EXCEPT !.pc = "triples",
                                       !.todo = r.text.triples ] ]

\* the loop resolving every reference before it looks at the predicate
NextTriple_AnyReference(i, t, script) ==
    /\ w[i].pc = "triples"
    /\ t \in w[i].todo
    /\ LET r == get_string_label(t.o.v, "author", script)
       IN  /\ clients' = IF ~ t.o.lit
                         THEN [ clients EXCEPT ![w[i].sparql] =
                                  [ fmt   |-> "JSON",
                                    query |-> [ kind |-> "select", arg |-> r.u ] ] ]
                         ELSE clients
           /\ w' = [ w EXCEPT ![i].todo = @ \ { t },
                              ![i].cur  = AddTriple(@, t,
                                            IF ~ t.o.lit THEN r.loop.ret
                                            ELSE Empty) ]

\* lines 213-222: one iteration of the loop over the triples, in the order
\* the graph yields them (any), with the label lookup and its retries
NextTriple(i, t, script) ==
    /\ w[i].pc = "triples"
    /\ t \in w[i].todo
    /\ LET r == get_string_label(t.o.v, KeyOf(t.p), script)
       IN  /\ clients' = IF NeedsLabel(t)
                         THEN [ clients EXCEPT ![w[i].sparql] =
                                  [ fmt   |-> "JSON",
                                    query |-> [ kind |-> "select", arg |-> r.u ] ] ]
                         ELSE clients
           /\ w' = [ w EXCEPT ![i].todo = @ \ { t },
                              ![i].cur  = AddTriple(@, t,
                                            IF NeedsLabel(t) THEN r.loop.ret
                                            ELSE Empty) ]

\* process_celex fetching the title page whether or not the graph gave a title
Finish_AlwaysFallback(i, script) ==
    /\ w[i].pc = "triples"
    /\ w[i].todo = {}
    /\ LET norm  == [ k \in Keys |-> NormalizeField(w[i].cur[k]) ]
           final == [ norm EXCEPT !["title"] = get_title_fallback(script).ret ]
       IN  w' = [ w EXCEPT ![i] =
                    [ @ EXCEPT !.pc  = "done",
                               !.cur = EmptyCurrentRow,
                               !.ret = HeaderOrder(final, celex_nums[i]) ] ]
    /\ UNCHANGED clients

\* the normalisation and the title fallback run without waiting for the
\* loop over the triples to end
Finish_BeforeLoopEnd(i, script) ==
    /\ w[i].pc = "triples"
    /\ LET norm  == [ k \in Keys |-> NormalizeField(w[i].cur[k]) ]
           title == IF norm["title"] = Empty
                    THEN get_title_fallback(script).ret
                    ELSE norm["title"]
           final == [ norm EXCEPT !["title"] = title ]
       IN  w' = [ w EXCEPT ![i] =
                    [ @ EXCEPT !.pc  = "done",
                               !.cur = EmptyCurrentRow,
                               !.ret = HeaderOrder(final, celex_nums[i]) ] ]
    /\ UNCHANGED clients

\* lines 224-239: normalisation, title fallback, the row in header order
Finish(i, script) ==
    /\ w[i].pc = "triples"
    /\ w[i].todo = {}
    /\ LET norm  == [ k \in Keys |-> NormalizeField(w[i].cur[k]) ]
           title == IF norm["title"] = Empty
                    THEN get_title_fallback(script).ret
                    ELSE norm["title"]
           final == [ norm EXCEPT !["title"] = title ]
       IN  w' = [ w EXCEPT ![i] =
                    [ @ EXCEPT !.pc  = "done",
                               !.cur = EmptyCurrentRow,
                               !.ret = HeaderOrder(final, celex_nums[i]) ] ]
    /\ UNCHANGED clients

(***************************************************************************)
(* main, get_metadata_sequential, get_metadata_parallel                    *)
(***************************************************************************)
N == Len(celex_nums)

Running(i) == w[i].pc \in { "graph", "triples" }

\* the except branch building its row from the first identifier
CollectedRow_Stale(i) ==
    IF w[i].exc THEN MinimalRow(celex_nums[1]) ELSE w[i].ret

\* no except branch: whatever the call left is appended
CollectedRow_NoExcept(i) == w[i].ret

\* what the orchestrator appends for a finished call: its row, or the
\* minimal row when the call raised
CollectedRow(i) ==
    IF w[i].exc THEN MinimalRow(celex_nums[i]) ELSE w[i].ret

\* lines 287-290 with 246-251 and 266-268: main picks the orchestrator, which
\* starts rows with the header and, in the parallel path, submits every
\* identifier to the pool
MainCall ==
    /\ main_pc = "main"
    /\ rows' = << HeaderRow >>
    /\ IF celex_nums = << >>
       THEN main_pc' = "save" /\ w' = w
       ELSE IF MAX_WORKERS = 1
       THEN main_pc' = "sequential" /\ w' = w
       ELSE /\ main_pc' = "parallel"
            /\ w' = [ i \in 1..N |-> [ NoCall EXCEPT !.pc = "queued" ] ]
    /\ UNCHANGED << celex_nums, workers, pbar, out, clients, env >>

\* a loop that calls process_celex for any identifier not yet called,
\* without waiting for the previous row
SeqCall_NoWait(i) ==
    /\ main_pc = "sequential"
    /\ w[i].pc = "new"
    /\ BeginCall(i)
    /\ UNCHANGED << celex_nums, workers, main_pc, rows, pbar, out, env >>

\* line 273: the loop calls process_celex for the next identifier
SeqCall(i) ==
    /\ main_pc = "sequential"
    /\ i = Len(rows)
    /\ w[i].pc = "new"
    /\ BeginCall(i)
    /\ UNCHANGED << celex_nums, workers, main_pc, rows, pbar, out, env >>

\* the sequential loop without try/except: an exception of process_celex
\* leaves get_metadata_sequential and nothing more is appended
SeqAppend_Uncaught(i) ==
    /\ main_pc = "sequential"
    /\ w[i].pc = "done"
    /\ ~ w[i].exc
    /\ rows' = Append(rows, w[i].ret)
    /\ pbar' = pbar + 1
    /\ w' = [ w EXCEPT ![i].pc = "collected", ![i].at = Len(rows) + 1 ]
    /\ UNCHANGED << celex_nums, workers, main_pc, out, clients, env >>

\* lines 273-277: the call returned or raised; its row is appended
SeqAppend(i) ==
    /\ main_pc = "sequential"
    /\ w[i].pc = "done"
    /\ rows' = Append(rows, CollectedRow(i))
    /\ pbar' = pbar + 1
    /\ w' = [ w EXCEPT ![i].pc = "collected", ![i].at = Len(rows) + 1 ]
    /\ UNCHANGED << celex_nums, workers, main_pc, out, clients, env >>

\* a pool that starts a thread for every queued work item
PoolStart_Unbounded(i) ==
    /\ main_pc = "parallel"
    /\ w[i].pc = "queued"
    /\ \A j \in 1..(i - 1) : w[j].pc # "queued"
    /\ BeginCall(i)
    /\ UNCHANGED << celex_nums, workers, main_pc, rows, pbar, out, env >>

\* a pool thread takes the oldest queued work item, if a thread is free
PoolStart(i) ==
    /\ main_pc = "parallel"
    /\ w[i].pc = "queued"
    /\ \A j \in 1..(i - 1) : w[j].pc # "queued"
    /\ Cardinality({ j \in 1..N : Running(j) }) < MAX_WORKERS
    /\ BeginCall(i)
    /\ UNCHANGED << celex_nums, workers, main_pc, rows, pbar, out, env >>

\* pbar.update inside the try: the except branch appends without a tick
Collect_NoTickOnError(i) ==
    /\ main_pc = "parallel"
    /\ w[i].pc = "done"
    /\ rows' = Append(rows, CollectedRow(i))
    /\ pbar' = IF w[i].exc THEN pbar ELSE pbar + 1
    /\ w' = [ w EXCEPT ![i].pc = "collected", ![i].at = Len(rows) + 1 ]
    /\ UNCHANGED << celex_nums, workers, main_pc, out, clients, env >>

\* lines 253-261: as_completed yields a finished future; its row is appended
Collect(i) ==
    /\ main_pc = "parallel"
    /\ w[i].pc = "done"
    /\ rows' = Append(rows, CollectedRow(i))
    /\ pbar' = pbar + 1
    /\ w' = [ w EXCEPT ![i].pc = "collected", ![i].at = Len(rows) + 1 ]
    /\ UNCHANGED << celex_nums, workers, main_pc, out, clients, env >>

\* a return inside the loop: the orchestrator returns with the first row
Return_Early ==
    /\ main_pc \in { "sequential", "parallel" }
    /\ \E i \in 1..N : w[i].pc = "collected"
    /\ main_pc' = "save"
    /\ UNCHANGED << celex_nums, workers, rows, pbar, out, w, clients, env >>

\* lines 262 and 278: every identifier has its row; the orchestrator returns
Return ==
    /\ main_pc \in { "sequential", "parallel" }
    /\ \A i \in 1..N : w[i].pc = "collected"
    /\ main_pc' = "save"
    /\ UNCHANGED << celex_nums, workers, rows, pbar, out, w, clients, env >>

\* lines 294-297: the table is written
Save ==
    /\ main_pc = "save"
    /\ out' = Append(out, rows)
    /\ main_pc' = "exit"
    /\ UNCHANGED << celex_nums, workers, rows, pbar, w, clients, env >>

(***************************************************************************)
(* The endpoints: what one request can be answered with                    *)
(***************************************************************************)
\* values and reference URIs that occur in the graphs
ValA == << "a" >>
ValB == << "b" >>
Ref1 == << "h", "/", "1" >>
Ref2 == << "h", "/", "2" >>
RefDir == << "h", "/", "1", "2", "3" >>

Lit(v) == [ lit |-> TRUE, v |-> v ]
Ref(u) == [ lit |-> FALSE, v |-> u ]
Triple(s, p, o) == [ s |-> s, p |-> p, o |-> o ]

Malformed == [ wellformed |-> FALSE, triples |-> {} ]
Turtle(g) == [ wellformed |-> TRUE, triples |-> g ]

\* a request whose first k attempts fail as `bad` and whose next one, if
\* any is left, is answered with `good`
MkScript(k, bad, good) ==
    [ a \in 1..MaxAttempts |-> IF a <= k THEN bad ELSE good ]

TurtleScripts(payloads) ==
    { MkScript(k, [ err |-> TRUE, text |-> NoText ], [ err |-> FALSE, text |-> p ]) :
        k \in 0..MaxAttempts, p \in payloads }

LabelScripts(labels) ==
    { MkScript(k, [ err |-> TRUE, bindings |-> << >> ],
                  [ err |-> FALSE, bindings |-> b ]) :
        k \in 0..MaxAttempts, b \in { << >> } \cup { << l >> : l \in labels } }

Page(meta, content) == [ status |-> "ok", meta |-> meta, content |-> content ]
NoPage(status) == [ status |-> status, meta |-> FALSE, content |-> Empty ]

PageScripts(pages) ==
    { MkScript(k, NoPage(bad), pg) :
        k \in 0..MaxAttempts, bad \in { "exc", "5xx" }, pg \in pages }

\* The orchestrator is run against endpoints that answer with one payload
\* of each kind: unparsable, a graph with a literal title, a graph with a
\* reference to resolve and no title.
OrchPayloads ==
    { Malformed,
      Turtle({ Triple("s1", property_mapping["title"], Lit(ValA)) }),
      Turtle({ Triple("s1", property_mapping["author"], Ref(Ref1)) }) }
OrchTurtleScripts == TurtleScripts(OrchPayloads)
OrchLabelScripts == LabelScripts({ ValA })
OrchPageScripts == PageScripts({ Page(FALSE, Empty), Page(TRUE, ValB) })

(***************************************************************************)
(* Spec: main over every identifier list and worker count                  *)
(***************************************************************************)
\* Identifiers are opaque, so a list is taken up to renaming: the first
\* identifier is A, and each next one is an earlier one or the next new one.
IdLists ==
    { << >> } \cup
    UNION { { [ i \in 1..n |-> Ident(s[i]) ] :
                s \in { t \in [ 1..n -> 1..n ] :
                          /\ t[1] = 1
                          /\ \A i \in 2..n : \E j \in 1..(i - 1) : t[i] <= t[j] + 1 } } :
            n \in 1..MaxIds }

Init ==
    /\ celex_nums \in IdLists
    /\ workers \in 0..MaxWorkers
    /\ main_pc = "main"
    /\ rows = << >>
    /\ pbar = 0
    /\ out = << >>
    /\ w = [ i \in 1..Len(celex_nums) |-> NoCall ]
    /\ clients = << >>
    /\ endpoint = << >>
    /\ log = NoLog
    /\ fin = << >>
    /\ fout = << >>

orch == << celex_nums, workers, main_pc, rows, pbar, out >>

Sequential == \E i \in 1..N : SeqCall(i)

SequentialAppend == \E i \in 1..N : SeqAppend(i)

Parallel == \E i \in 1..N : PoolStart(i)

ParallelCollect == \E i \in 1..N : Collect(i)

Graph ==
    \E i \in 1..N : \E script \in OrchTurtleScripts :
        GraphQuery(i, script) /\ UNCHANGED << orch, env >>

Triples ==
    \E i \in 1..N : \E t \in w[i].todo : \E script \in OrchLabelScripts :
        NextTriple(i, t, script) /\ UNCHANGED << orch, env >>

Row ==
    \E i \in 1..N : \E script \in OrchPageScripts :
        Finish(i, script) /\ UNCHANGED << orch, env >>

Next ==
    \/ MainCall
    \/ Sequential
    \/ SequentialAppend
    \/ Parallel
    \/ ParallelCollect
    \/ Graph
    \/ Triples
    \/ Row
    \/ Return
    \/ Save

Spec == Init /\ [][Next]_vars

\* every call that is made makes its next step; the pool and the loops
\* of the orchestrators go on while there is something to do
LiveSpec == Spec /\ WF_vars(Next)

(***************************************************************************)
(* SpecTwice: main run twice against one mocked endpoint                   *)
(***************************************************************************)
\* how often the pipeline is invoked
Runs == 2

\* a mocked endpoint answers a request the same way at every attempt
Steady(scripts) == { sc \in scripts : sc[1] = sc[MaxAttempts] }

Mocks(ids) ==
    [ graph : [ ids -> Steady(OrchTurtleScripts) ],
      label : [ { Ref1 } -> Steady(OrchLabelScripts) ],
      page  : [ ids -> Steady(OrchPageScripts) ] ]

InitTwice ==
    /\ celex_nums \in IdLists
    /\ workers \in 0..MaxWorkers
    /\ main_pc = "main"
    /\ rows = << >>
    /\ pbar = 0
    /\ out = << >>
    /\ w = [ i \in 1..Len(celex_nums) |-> NoCall ]
    /\ clients = << >>
    /\ endpoint \in Mocks(ToSet(celex_nums))
    /\ log = NoLog
    /\ fin = << >>
    /\ fout = << >>

MockedGraph ==
    \E i \in 1..N :
        /\ GraphQuery(i, endpoint.graph[celex_nums[i]])
        /\ UNCHANGED << orch, env >>

MockedTriples ==
    \E i \in 1..N : \E t \in w[i].todo :
        /\ NextTriple(i, t, endpoint.label[t.o.v])
        /\ UNCHANGED << orch, env >>

MockedRow ==
    \E i \in 1..N :
        /\ Finish(i, endpoint.page[celex_nums[i]])
        /\ UNCHANGED << orch, env >>

\* the pipeline is invoked again on the same input
Rerun ==
    /\ main_pc = "exit"
    /\ Len(out) < Runs
    /\ main_pc' = "main"
    /\ rows' = << >>
    /\ pbar' = 0
    /\ w' = [ i \in 1..N |-> NoCall ]
    /\ clients' = << >>
    /\ UNCHANGED << celex_nums, workers, out, env >>

NextTwice ==
    \/ MainCall
    \/ Sequential
    \/ SequentialAppend
    \/ Parallel
    \/ ParallelCollect
    \/ MockedGraph
    \/ MockedTriples
    \/ MockedRow
    \/ Return
    \/ Save
    \/ Rerun

SpecTwice == InitTwice /\ [][NextTwice]_vars

(***************************************************************************)
(* SpecCall: one process_celex call, observed request by request           *)
(***************************************************************************)
OtherPredicate == "cdm:work_has_expression"

TriplePool ==
    { Triple("s1", property_mapping["title"], Lit(ValA)),
      Triple("s1", property_mapping["title"], Ref(Ref1)),
      Triple("s1", property_mapping["author"], Ref(Ref1)),
      Triple("s1", property_mapping["author"], Ref(Ref2)),
      Triple("s1", property_mapping["author"], Lit(ValB)),
      Triple("s2", property_mapping["author"], Lit(ValB)),
      Triple("s1", property_mapping["directory_code"], Ref(RefDir)),
      Triple("s1", property_mapping["celex"], Lit(ValB)),
      Triple("s1", property_mapping["celex"], Lit(ValA)),
      Triple("s1", OtherPredicate, Ref(Ref1)) }

Payloads ==
    { Malformed } \cup
    { Turtle(g) : g \in { h \in SUBSET TriplePool : Cardinality(h) <= MaxTriples } }

CallTurtleScripts == TurtleScripts(Payloads)
CallLabelScripts == LabelScripts({ ValA, ValB })
CallPageScripts ==
    PageScripts({ Page(FALSE, Empty), Page(TRUE, ValB), Page(TRUE, NoneValue) })

\* whether the normalised title of call i is empty, so that line 236 runs
TitleMissing(i) == NormalizeField(w[i].cur["title"]) = Empty

InitCall ==
    /\ celex_nums = << Ident(1) >>
    /\ workers = 1
    /\ main_pc = "call"
    /\ rows = << >>
    /\ pbar = 0
    /\ out = << >>
    /\ w = << NoCall >>
    /\ clients = << >>
    /\ endpoint = << >>
    /\ log = NoLog
    /\ fin = << >>
    /\ fout = << >>

CallBegin ==
    /\ main_pc = "call"
    /\ w[1].pc = "new"
    /\ BeginCall(1)
    /\ UNCHANGED << orch, env >>

CallGraph ==
    \E script \in CallTurtleScripts :
        /\ GraphQuery(1, script)
        /\ LET r == execute_sparql_turtle(script)
           IN  log' = [ log EXCEPT
                 !.calls = Append(@, "graph"),
                 !.last  = << [ kind |-> "graph", script |-> script, res |-> r ] >>,
                 !.parsed = ~ r.sentinel /\ r.text.wellformed,
                 !.graph = r.text.triples ]
        /\ UNCHANGED << orch, endpoint, fin, fout >>

CallTriple ==
    \E t \in w[1].todo : \E script \in CallLabelScripts :
        /\ NextTriple(1, t, script)
        /\ IF NeedsLabel(t)
           THEN LET r == get_string_label(t.o.v, KeyOf(t.p), script)
                IN  log' = [ log EXCEPT
                      !.calls = Append(@, "label"),
                      !.last  = << [ kind |-> "label", script |-> script,
                                     res |-> r.loop ] >>,
                      !.order = Append(@, t),
                      !.resolved = @ \cup { [ t |-> t, lbl |-> r.loop.ret ] } ]
           ELSE log' = [ log EXCEPT !.order = Append(@, t) ]
        /\ UNCHANGED << orch, endpoint, fin, fout >>

CallRow ==
    \E script \in CallPageScripts :
        /\ Finish(1, script)
        /\ IF TitleMissing(1)
           THEN LET r == get_title_fallback(script)
                IN  log' = [ log EXCEPT
                      !.calls = Append(@, "page"),
                      !.last  = << [ kind |-> "page", script |-> script,
                                     res |-> r ] >>,
                      !.fallback = << r.ret >> ]
           ELSE log' = log
        /\ UNCHANGED << orch, endpoint, fin, fout >>

NextCall ==
    \/ CallBegin
    \/ CallGraph
    \/ CallTriple
    \/ CallRow

SpecCall == InitCall /\ [][NextCall]_vars

(***************************************************************************)
(* SpecPool: the parallel orchestrator with one identifier more than the   *)
(* pool has threads, against an endpoint that answers the graph request    *)
(* with a graph holding a literal title or with nothing                    *)
(***************************************************************************)
PoolTurtleScripts ==
    TurtleScripts({ Turtle({ Triple("s1", property_mapping["title"], Lit(ValA)) }) })

InitPool ==
    /\ workers \in 2..MaxWorkers
    /\ celex_nums = [ i \in 1..(workers + 1) |-> Ident(i) ]
    /\ main_pc = "main"
    /\ rows = << >>
    /\ pbar = 0
    /\ out = << >>
    /\ w = [ i \in 1..Len(celex_nums) |-> NoCall ]
    /\ clients = << >>
    /\ endpoint = << >>
    /\ log = NoLog
    /\ fin = << >>
    /\ fout = << >>

PoolGraph ==
    \E i \in 1..N : \E script \in PoolTurtleScripts :
        GraphQuery(i, script) /\ UNCHANGED << orch, env >>

NextPool ==
    \/ MainCall
    \/ Parallel
    \/ ParallelCollect
    \/ PoolGraph
    \/ Triples
    \/ Row
    \/ Return
    \/ Save

SpecPool == InitPool /\ [][NextPool]_vars

(***************************************************************************)
(* SpecMode: main for every --workers argument, negative ones included,   *)
(* against the endpoint of SpecPool                                        *)
(***************************************************************************)
InitMode ==
    /\ celex_nums \in IdLists
    /\ workers \in (0 - MaxWorkers)..MaxWorkers
    /\ main_pc = "main"
    /\ rows = << >>
    /\ pbar = 0
    /\ out = << >>
    /\ w = [ i \in 1..Len(celex_nums) |-> NoCall ]
    /\ clients = << >>
    /\ endpoint = << >>
    /\ log = NoLog
    /\ fin = << >>
    /\ fout = << >>

NextMode ==
    \/ MainCall
    \/ Sequential
    \/ SequentialAppend
    \/ Parallel
    \/ ParallelCollect
    \/ PoolGraph
    \/ Triples
    \/ Row
    \/ Return
    \/ Save

SpecMode == InitMode /\ [][NextMode]_vars

(***************************************************************************)
(* SpecNorm: the normalisation step of process_celex on every value list   *)
(***************************************************************************)
\* nothing of main or of a call is running
Idle ==
    /\ celex_nums = << >>
    /\ workers = 1
    /\ main_pc = "pure"
    /\ rows = << >>
    /\ pbar = 0
    /\ out = << >>
    /\ w = << >>
    /\ clients = << >>
    /\ endpoint = << >>
    /\ log = NoLog

\* the values a key's list can hold: '', 'a', 'ab', 'b', 'b a'
NormValues == { Empty, ValA, << "a", "b" >>, ValB, << "b", " ", "a" >> }

ValueLists == UNION { [ 1..n -> NormValues ] : n \in 0..MaxLen }

InitNorm ==
    /\ Idle
    /\ fin \in ValueLists
    /\ fout = << >>

\* lines 226-232 for one key
Normalize ==
    /\ fout = << >>
    /\ fout' = << NormalizeField(fin) >>
    /\ UNCHANGED << orch, w, clients, endpoint, log, fin >>

NextNorm == Normalize

SpecNorm == InitNorm /\ [][NextNorm]_vars

(***************************************************************************)
(* SpecUri: the URI get_string_label queries, for every URI and key        *)
(***************************************************************************)
UriChars == { "/", "1", "2" }

\* a reference URI whose last segment is 1234
ExampleUri == << "h", "/", "1", "2", "3", "4" >>

Uris == UNION { [ 1..n -> UriChars ] : n \in 0..MaxUriLen } \cup { ExampleUri }

InitUri ==
    /\ Idle
    /\ fin \in [ uri : Uris, pred : Keys ]
    /\ fout = << >>

\* lines 146-163: the URI that ends up in the query
QueryLabel ==
    /\ fout = << >>
    /\ \E script \in CallLabelScripts :
         fout' = << get_string_label(fin.uri, fin.pred, script).u >>
    /\ UNCHANGED << orch, w, clients, endpoint, log, fin >>

NextUri == QueryLabel

SpecUri == InitUri /\ [][NextUri]_vars

(***************************************************************************)
(* SpecLoad: read_celex_list on every file of up to MaxRecords records     *)
(***************************************************************************)
\* 'celex' as a str
HeaderWord == << "c", "e", "l", "e", "x" >>

\* str.lower() on the letters the files hold
LowerChar(c) ==
    CASE c = "C" -> "c"
      [] c = "E" -> "e"
      [] c = "L" -> "l"
      [] c = "X" -> "x"
      [] OTHER -> c

Lower(s) == [ n \in 1..Len(s) |-> LowerChar(s[n]) ]

\* str.strip() for the whitespace the files hold
RECURSIVE Strip(_)
Strip(s) ==
    IF s = << >> THEN s
    ELSE IF s[1] = " " THEN Strip(Tail(s))
    ELSE IF s[Len(s)] = " " THEN Strip(SubSeq(s, 1, Len(s) - 1))
    ELSE s

\* line 104 comparing the cell itself with "celex"
SkipCell_CaseSensitive(cell) == cell = Empty \/ cell = HeaderWord

\* line 104: not cell or cell.lower() == "celex"
SkipCell(cell) == cell = Empty \/ Lower(cell) = HeaderWord

\* lines 100-106: the loop over the records csv.reader yields
RECURSIVE ReadLoop(_, _)
ReadLoop(records, celex_list) ==
    IF records = << >> THEN celex_list
    ELSE LET row == records[1]
         IN  IF row = << >>
             THEN ReadLoop(Tail(records), celex_list)
             ELSE LET cell == Strip(row[1])
                  IN  IF SkipCell(cell)
                      THEN ReadLoop(Tail(records), celex_list)
                      ELSE ReadLoop(Tail(records), Append(celex_list, cell))

read_celex_list(records) == ReadLoop(records, << >>)

\* first cells: '', ' ', '3', ' 3 ', '3 3', 'x', 'X', 'celex', 'CELEX',
\* ' Celex ', 'celex3'
Cells ==
    { << >>, << " " >>, << "3" >>, << " ", "3", " " >>, << "3", " ", "3" >>,
      << "x" >>, << "X" >>, HeaderWord, << "C", "E", "L", "E", "X" >>,
      << " ", "C", "e", "l", "e", "x", " " >>,
      << "c", "e", "l", "e", "x", "3" >> }

\* the records csv.reader yields: [] for an empty line, one cell, or a first
\* cell followed by another
Records ==
    { << >> } \cup { << c >> : c \in Cells }
              \cup { << c, << "3" >> >> : c \in { << >>, << "X" >>, HeaderWord } }

Files == UNION { [ 1..n -> Records ] : n \in 0..MaxRecords }

InitLoad ==
    /\ Idle
    /\ fin \in Files
    /\ fout = << >>

Load ==
    /\ fout = << >>
    /\ fout' = << read_celex_list(fin) >>
    /\ UNCHANGED << orch, w, clients, endpoint, log, fin >>

NextLoad == Load

SpecLoad == InitLoad /\ [][NextLoad]_vars

(***************************************************************************)
(* SpecBackoff: backoff_sleep for every attempt number of the retry loops  *)
(* and every jitter, in hundredths of a second                             *)
(***************************************************************************)
\* base = 0.8
BackoffBase == 80

\* cap = 8.0
BackoffCap == 800

\* random.uniform(0, 0.3) yields up to 0.3
MaxJitter == 30

MinOf(a, b) == IF a <= b THEN a ELSE b

\* the delay growing by the base at each attempt
backoff_sleep_Linear(attempt, jitter) ==
    MinOf(BackoffCap, BackoffBase * (attempt + 1)) + jitter

\* line 111: the time slept, for the jitter drawn
backoff_sleep(attempt, jitter) ==
    MinOf(BackoffCap, BackoffBase * (2 ^ attempt)) + jitter

\* range(4): the attempt numbers the three retry loops pass
InitBackoff ==
    /\ Idle
    /\ fin \in [ attempt : 0..(MaxAttempts - 1), jitter : 0..MaxJitter ]
    /\ fout = << >>

Sleep ==
    /\ fout = << >>
    /\ fout' = << backoff_sleep(fin.attempt, fin.jitter) >>
    /\ UNCHANGED << orch, w, clients, endpoint, log, fin >>

NextBackoff == Sleep

SpecBackoff == InitBackoff /\ [][NextBackoff]_vars

(***************************************************************************)
(* SpecWork: one process_celex call with the requests it issues counted    *)
(* by kind; fin holds the graph it parsed, fout the counts                 *)
(***************************************************************************)
NoWork == [ graph |-> 0, label |-> 0, page |-> 0 ]

\* the graphs of the call: a literal title, two references to resolve and a
\* reference under a predicate that is not configured
WorkPool ==
    { Triple("s1", property_mapping["title"], Lit(ValA)),
      Triple("s1", property_mapping["author"], Ref(Ref1)),
      Triple("s1", property_mapping["author"], Ref(Ref2)),
      Triple("s1", OtherPredicate, Ref(Ref1)) }

WorkTurtleScripts ==
    TurtleScripts({ Malformed } \cup
        { Turtle(g) : g \in { h \in SUBSET WorkPool : Cardinality(h) <= MaxTriples } })

InitWork ==
    /\ celex_nums = << Ident(1) >>
    /\ workers = 1
    /\ main_pc = "work"
    /\ rows = << >>
    /\ pbar = 0
    /\ out = << >>
    /\ w = << NoCall >>
    /\ clients = << >>
    /\ endpoint = << >>
    /\ log = NoLog
    /\ fin = << >>
    /\ fout = << NoWork >>

WorkBegin ==
    /\ main_pc = "work"
    /\ w[1].pc = "new"
    /\ BeginCall(1)
    /\ UNCHANGED << orch, env >>

WorkGraph ==
    \E script \in WorkTurtleScripts :
        /\ GraphQuery(1, script)
        /\ LET r == execute_sparql_turtle(script)
           IN  /\ fin' = << r.text.triples >>
               /\ fout' = << [ fout[1] EXCEPT !.graph = @ + r.net.queries ] >>
        /\ UNCHANGED << orch, endpoint, log >>

WorkTriple ==
    \E t \in w[1].todo : \E script \in OrchLabelScripts :
        /\ NextTriple(1, t, script)
        /\ fout' = IF NeedsLabel(t)
                   THEN << [ fout[1] EXCEPT !.label = @ +
                               get_string_label(t.o.v, KeyOf(t.p), script).loop.net.queries ] >>
                   ELSE fout
        /\ UNCHANGED << orch, endpoint, log, fin >>

WorkRow ==
    \E script \in OrchPageScripts :
        /\ Finish(1, script)
        /\ fout' = IF TitleMissing(1)
                   THEN << [ fout[1] EXCEPT !.page = @ +
                               get_title_fallback(script).net.queries ] >>
                   ELSE fout
        /\ UNCHANGED << orch, endpoint, log, fin >>

NextWork ==
    \/ WorkBegin
    \/ WorkGraph
    \/ WorkTriple
    \/ WorkRow

SpecWork == InitWork /\ [][NextWork]_vars

(***************************************************************************)
(* SpecTrip: a value list assembled by process_celex and read back by      *)
(* process_metadata of 05_prepare_metadata.py                              *)
(***************************************************************************)
\* the parts of the field taken as they are, empty ones dropped
Categories_NoStrip(field) ==
    { p \in ToSet(Split(field, "|")) : p # Empty }

\* {cat.strip() for cat in eurovoc_data.split('|') if cat.strip()}
Categories(field) ==
    { Strip(cat) : cat \in { p \in ToSet(Split(field, "|")) : Strip(p) # Empty } }

\* the values of SpecNorm, and 'a|b' and ' a'
TripValues == NormValues \cup { << "a", "|", "b" >>, << " ", "a" >> }

TripLists == UNION { [ 1..n -> TripValues ] : n \in 0..MaxLen }

InitTrip ==
    /\ Idle
    /\ fin \in TripLists
    /\ fout = << >>

RoundTrip ==
    /\ fout = << >>
    /\ fout' = << Categories(NormalizeField(fin)) >>
    /\ UNCHANGED << orch, w, clients, endpoint, log, fin >>

NextTrip == RoundTrip

SpecTrip == InitTrip /\ [][NextTrip]_vars

(***************************************************************************)
(* Claims                                                                  *)
(***************************************************************************)
IsAscending(parts) ==
    \A n \in 1..(Len(parts) - 1) : StrLess(parts[n], parts[n + 1])

\* C8: the normalisation of a key's value list yields '' for the empty
\* list, the element for a one-element list, and for two or more elements
\* the distinct elements in ascending order joined with ' | '; the list
\* ['b', 'a', 'a'] yields 'a | b'.
C8_Normalization ==
    fout # << >> =>
        /\ fin = << >> => fout[1] = Empty
        /\ Len(fin) = 1 => fout[1] = fin[1]
        /\ Len(fin) >= 2 =>
             \E parts \in [ 1..Cardinality(ToSet(fin)) -> ToSet(fin) ] :
                 /\ ToSet(parts) = ToSet(fin)
                 /\ IsAscending(parts)
                 /\ fout[1] = Join(parts, FieldSep)
        /\ fin = << ValB, ValA, ValA >> => fout[1] = << "a", " ", "|", " ", "b" >>

C8_Witness ==
    /\ fin = << ValB, ValA, ValA >>
    /\ fout = << << "a", " ", "|", " ", "b" >> >>

\* the index of the last '/' of a URI, 0 when it has none
LastSlash(uri) ==
    IF \A n \in 1..Len(uri) : uri[n] # "/" THEN 0
    ELSE CHOOSE n \in 1..Len(uri) :
             uri[n] = "/" /\ \A m \in (n + 1)..Len(uri) : uri[m] # "/"

\* C10: for directory_code the URI queried is the reference URI cut after
\* the first two characters of its final path segment (.../1234 is queried
\* as .../12); for every other key it is the reference URI unchanged.
C10_LabelUri ==
    fout # << >> =>
        /\ fin.pred = "directory_code" =>
             LET keep == LastSlash(fin.uri) + 2
             IN  fout[1] = SubSeq(fin.uri, 1,
                                  IF Len(fin.uri) < keep THEN Len(fin.uri) ELSE keep)
        /\ fin.pred # "directory_code" => fout[1] = fin.uri
        /\ fin = [ uri |-> ExampleUri, pred |-> "directory_code" ] =>
             fout[1] = << "h", "/", "1", "2" >>

C10_Witness ==
    /\ fin = [ uri |-> ExampleUri, pred |-> "directory_code" ]
    /\ fout = << << "h", "/", "1", "2" >> >>

\* the last request of the observed call is of one of these kinds
LastIs(kinds) == log.last # << >> /\ log.last[1].kind \in kinds

AllFail(script) == \A a \in 1..4 : script[a].err

\* attempt k is the first that succeeds
FirstSuccess(script, k) ==
    /\ \A a \in 1..(k - 1) : script[a].err
    /\ ~ script[k].err

\* C6: when every attempt of the graph query fails, the query is issued
\* exactly 4 times, execute_sparql_turtle returns the -1 sentinel and
\* process_celex returns the identifier followed by 12 empty fields.
C6_GraphRetryExhaustion ==
    (LastIs({ "graph" }) /\ AllFail(log.last[1].script)) =>
        /\ log.last[1].res.net.queries = 4
        /\ log.last[1].res.sentinel
        /\ w[1].pc = "done"
        /\ ~ w[1].exc
        /\ Len(w[1].ret) = 13
        /\ w[1].ret[1] = celex_nums[1]
        /\ \A n \in 2..13 : w[1].ret[n] = Empty

C6_Witness ==
    /\ LastIs({ "graph" })
    /\ AllFail(log.last[1].script)
    /\ w[1].pc = "done"
    /\ w[1].ret[1] = << "A" >>

\* C7: a graph query or label lookup whose attempts 1..k-1 fail and whose
\* attempt k succeeds issues exactly k queries and returns what attempt k
\* was answered with; no request issues more than 4 queries.
C7_RetryStopsAtSuccess ==
    LastIs({ "graph", "label" }) =>
        LET e == log.last[1]
        IN  /\ e.res.net.queries <= 4
            /\ \A k \in 1..4 :
                 FirstSuccess(e.script, k) =>
                     /\ e.res.net.queries = k
                     /\ e.kind = "graph" =>
                          ~ e.res.sentinel /\ e.res.text = e.script[k].text
                     /\ e.kind = "label" =>
                          e.res.ret = IF e.script[k].bindings = << >> THEN Empty
                                      ELSE e.script[k].bindings[1]

\* a label lookup that succeeded at its third attempt, after a graph query
\* that succeeded at its second
C7_Witness ==
    /\ LastIs({ "label" })
    /\ FirstSuccess(log.last[1].script, 3)
    /\ log.last[1].res.net.queries = 3
    /\ log.last[1].res.ret = ValA

\* the value process_celex appends for a triple
ValueOf(t) ==
    IF t.o.lit THEN t.o.v
    ELSE (CHOOSE r \in log.resolved : r.t = t).lbl

\* current_row after the loop has taken the triples in the given order
RECURSIVE Accumulate(_, _)
Accumulate(cur, order) ==
    IF order = << >> THEN cur
    ELSE Accumulate(AddTriple(cur, order[1], ValueOf(order[1])), Tail(order))

\* the row process_celex returns when the loop takes the triples in the
\* given order, the labels and the fallback title being those observed
RowInOrder(order) ==
    LET cur   == Accumulate(EmptyCurrentRow, order)
        norm  == [ k \in Keys |-> NormalizeField(cur[k]) ]
        final == [ norm EXCEPT !["title"] =
                     IF @ = Empty THEN log.fallback[1] ELSE @ ]
    IN  HeaderOrder(final, celex_nums[1])

\* every order in which a set of triples can be taken
Orders(g) ==
    { o \in [ 1..Cardinality(g) -> g ] : ToSet(o) = g }

Returned(i) == w[i].pc \in { "done", "collected" } /\ ~ w[i].exc

\* C9: the row process_celex returns is the row it would return for every
\* other order of the graph's triples, each reference resolving to the same
\* label and the fallback returning the same title.
C9_TripleOrderIndependent ==
    (Returned(1) /\ log.parsed) =>
        \A o \in Orders(log.graph) : w[1].ret = RowInOrder(o)

\* the loop took the literal 'b' before the reference that resolved to 'a'
C9_Witness ==
    /\ Returned(1)
    /\ Len(log.order) = 2
    /\ log.order[1] = Triple("s1", property_mapping["author"], Lit(ValB))
    /\ log.order[2] = Triple("s1", property_mapping["author"], Ref(Ref1))
    /\ ValueOf(log.order[2]) = ValA
    /\ w[1].ret[2] = << "a", " ", "|", " ", "b" >>

\* the orchestrator has returned its table to main
Returns == main_pc \in { "save", "exit" }

\* how many data rows of the table carry the identifier c
RowsOf(c) == Cardinality({ n \in 2..Len(rows) : rows[n][1] = c })

\* how many positions of the input hold the identifier c
PositionsOf(c) == Cardinality({ i \in 1..N : celex_nums[i] = c })

\* C1: the data rows the orchestrator returns are in input order: the celex
\* field of data row i is the i-th input identifier, in sequential and in
\* parallel mode, whatever the order in which the calls complete.
C1_InputOrder ==
    Returns =>
        /\ Len(rows) = N + 1
        /\ \A i \in 1..N : rows[i + 1][1] = celex_nums[i]

\* C2: the returned table holds exactly one data row per position of the
\* input list: each identifier is the celex field of as many data rows as
\* it has positions in the input, and before the return of no more.
C2_OneRowPerIdentifier ==
    /\ \A c \in ToSet(celex_nums) : RowsOf(c) <= PositionsOf(c)
    /\ \A n \in 2..Len(rows) : rows[n][1] \in ToSet(celex_nums)
    /\ Returns =>
         /\ Len(rows) = N + 1
         /\ \A c \in ToSet(celex_nums) : RowsOf(c) = PositionsOf(c)

\* a parallel run whose first call raised and whose second call was
\* collected first
C2_Witness ==
    /\ main_pc = "exit"
    /\ celex_nums = << Ident(1), Ident(2) >>
    /\ w[1].exc
    /\ w[2].at = 2
    /\ rows[2][1] = Ident(2)
    /\ rows[3][1] = Ident(1)

\* C3: two runs of the pipeline over the same identifier list against
\* endpoints that answer each request alike write identical tables,
\* whatever the worker count and the scheduling.
C3_Deterministic ==
    \A m, n \in 1..Len(out) : out[m] = out[n]

\* C4: a call that raises gets the row [identifier, '' x 12]; every other
\* call's row is what process_celex returned for it, and the orchestrator
\* returns only when every identifier has its row.
C4_ExceptionIsolated ==
    /\ \A i \in 1..N :
         w[i].pc = "collected" =>
             /\ w[i].at \in 2..Len(rows)
             /\ w[i].exc =>
                  /\ Len(rows[w[i].at]) = 13
                  /\ rows[w[i].at][1] = celex_nums[i]
                  /\ \A n \in 2..13 : rows[w[i].at][n] = Empty
             /\ ~ w[i].exc =>
                  /\ rows[w[i].at] = w[i].ret
                  /\ Len(w[i].ret) = 13
                  /\ w[i].ret[1] = celex_nums[i]
    /\ Returns => \A i \in 1..N : w[i].pc = "collected"

\* the first call raised; the second returned a row with a title and was
\* collected after it
C4_Witness ==
    /\ main_pc = "exit"
    /\ N = 2
    /\ w[1].exc /\ w[1].at = 2
    /\ ~ w[2].exc /\ w[2].at = 3
    /\ rows[3][5] = ValA

\* C5: every run terminates: eventually main has written the table, every
\* identifier's call has been collected, and its row carries its identifier.
C5_Terminates ==
    <>( /\ main_pc = "exit"
        /\ Len(out) = 1
        /\ \A i \in 1..N :
             /\ w[i].pc = "collected"
             /\ rows[w[i].at][1] = celex_nums[i] )

\* a sequential run over two identifiers has ended, the first call having
\* raised and the second having lost its graph query four times
C5_Witness ==
    /\ main_pc = "exit"
    /\ workers = 1
    /\ N = 2
    /\ w[1].exc
    /\ w[2].ret = MinimalRow(celex_nums[2])
    /\ clients[2].query.kind = "construct"

\* the values the graph of the observed call gives the title key
GraphTitles ==
    { ValueOf(t) : t \in { u \in log.graph : u.p = property_mapping["title"] } }

\* how many times the observed call fetched the title page
PageCalls == Cardinality({ n \in DOMAIN log.calls : log.calls[n] = "page" })

\* C11: when the graph of a call was fetched and parsed, the call fetches the
\* title page exactly when the graph gives no non-empty title value, and then
\* the title it returns is what get_title_fallback returned; otherwise the
\* page is never fetched and the returned title is the normalised graph title.
C11_FallbackActivation ==
    (Returned(1) /\ log.parsed) =>
        IF \A v \in GraphTitles : v = Empty
        THEN /\ PageCalls = 1
             /\ log.fallback # << >>
             /\ w[1].ret[5] = log.fallback[1]
        ELSE /\ PageCalls = 0
             /\ log.fallback = << >>
             /\ w[1].ret[5] # Empty
             /\ w[1].ret[5] =
                  NormalizeField(Accumulate(EmptyCurrentRow, log.order)["title"])

\* a title reference resolved to the empty label, so the page was fetched
\* and its title 'b' is the title of the row
C11_Witness ==
    /\ Returned(1)
    /\ log.parsed
    /\ GraphTitles = { Empty }
    /\ PageCalls = 1
    /\ log.fallback = << ValB >>
    /\ w[1].ret[5] = ValB

\* a Python str, as opposed to None
IsString(v) == v # NoneValue

\* C12: whatever the page requests of get_title_fallback do, it returns a
\* string: the content of the English eli:title tag or the empty string.
C12_FallbackReturnsString ==
    LastIs({ "page" }) =>
        LET script == log.last[1].script
            ret    == log.last[1].res.ret
        IN  /\ IsString(ret)
            /\ \/ ret = Empty
               \/ \E a \in 1..MaxAttempts :
                    /\ script[a].status = "ok"
                    /\ script[a].meta
                    /\ ret = script[a].content

\* the header as the output file shows it, cell by cell
FixedHeader ==
    << << "celex" >>, << "author" >>, << "responsible_body" >>, << "form" >>,
       << "title" >>, << "addressee" >>, << "date_adoption" >>,
       << "date_in_force" >>, << "date_end_validity" >>,
       << "directory_code" >>, << "procedure_code" >>, << "eurovoc" >>,
       << "subject_matters" >> >>

\* a data row of the run's endpoint: 13 fields, the identifier first, an
\* author label only in the author column, a title only in the title column
WellShaped(row) ==
    /\ Len(row) = 13
    /\ row[1] \in ToSet(celex_nums)
    /\ row[2] \in { Empty, ValA }
    /\ row[5] \in { Empty, ValA, ValB }
    /\ \A n \in (3..13) \ { 5 } : row[n] = Empty

\* C13: from the moment the orchestrator creates the table, its first row is
\* the fixed header of the 13 keys, every data row (returned, sentinel or
\* exception) has 13 fields in the header's column order, and the table of an
\* empty identifier list is the header alone; the written file is that table.
C13_OutputShape ==
    /\ main_pc # "main" =>
         /\ Len(rows) >= 1
         /\ rows[1] = FixedHeader
         /\ \A n \in 2..Len(rows) : WellShaped(rows[n])
    /\ (Returns /\ N = 0) => rows = << FixedHeader >>
    /\ \A n \in DOMAIN out : out[n] = rows

\* a written table of the header, a row with a fallback title in column 5,
\* and the minimal row of a call that raised
C13_Witness ==
    /\ main_pc = "exit"
    /\ N = 2
    /\ MAX_WORKERS = 2
    /\ Len(out[1]) = 3
    /\ out[1][1] = FixedHeader
    /\ \E i \in 1..2 : ~ w[i].exc /\ rows[w[i].at][5] = ValB
    /\ \E i \in 1..2 : w[i].exc /\ rows[w[i].at] = MinimalRow(celex_nums[i])

\* the call for position i was entered and its row is not yet appended
InProgress(i) == w[i].pc \in { "graph", "triples", "done" }

\* C14: with one worker, at most one process_celex is in progress at any
\* moment, and the call for an identifier is entered only after the rows of
\* all identifiers before it have been appended, each at its input position.
C14_SequentialOneAtATime ==
    (MAX_WORKERS = 1 /\ main_pc # "main") =>
        /\ main_pc \in { "sequential", "save", "exit" }
        /\ Cardinality({ i \in 1..N : InProgress(i) }) <= 1
        /\ \A i \in 1..N :
             w[i].pc # "new" =>
                 \A j \in 1..(i - 1) :
                     w[j].pc = "collected" /\ w[j].at = j + 1

\* the row of the first identifier is appended and the second call is
\* walking its triples
C14_Witness ==
    /\ main_pc = "sequential"
    /\ N = 2
    /\ w[1].pc = "collected"
    /\ Len(rows) = 2
    /\ w[2].pc = "triples"

\* C15: in the parallel path the calls in progress never outnumber
\* MAX_WORKERS, and an identifier that no thread has taken is still queued:
\* it has no client and has issued no request.
C15_PoolBound ==
    main_pc = "parallel" =>
        /\ Cardinality({ i \in 1..N : Running(i) }) <= MAX_WORKERS
        /\ \A i \in 1..N :
             w[i].pc = "queued" => w[i].sparql = 0 /\ w[i].at = 0
        /\ Len(clients) = Cardinality({ i \in 1..N : w[i].pc # "queued" })

\* every thread of the pool is busy and the last identifier waits unstarted
C15_Witness ==
    /\ main_pc = "parallel"
    /\ N > MAX_WORKERS
    /\ Cardinality({ i \in 1..N : Running(i) }) = MAX_WORKERS
    /\ w[N].pc = "queued"

\* the call for position i has created its client
Started(i) == w[i].sparql # 0

\* the client of call i holds what call i itself last set on it
OwnClient(i) ==
    LET c == clients[w[i].sparql]
    IN  IF w[i].pc = "graph"
        THEN c = [ fmt |-> "TURTLE", query |-> NoQuery ]
        ELSE \/ /\ c.fmt = "TURTLE"
                /\ c.query = [ kind |-> "construct", arg |-> celex_nums[i] ]
             \/ /\ c.fmt = "JSON"
                /\ c.query.kind = "select"
                /\ \E k \in Keys : c.query.arg = LabelUri(Ref1, k)

\* a step that changes a client is a step of the one call that owns it
OwnerWrites ==
    \A c \in DOMAIN clients :
        clients'[c] # clients[c] =>
            \E i \in 1..N :
                /\ w[i].sparql = c
                /\ w'[i] # w[i]
                /\ \A j \in (1..N) \ { i } : w'[j] = w[j]

\* C16: every process_celex call has a client of its own: no two calls hold
\* the same client, the query text and return format of a call's client are
\* those the call itself set last, and only the owning call changes them.
C16_NoSharedClient ==
    /\ [](\A i \in 1..N : Started(i) =>
            /\ w[i].sparql \in DOMAIN clients
            /\ \A j \in (1..N) \ { i } : w[j].sparql # w[i].sparql
            /\ OwnClient(i))
    /\ [][OwnerWrites]_vars

\* two calls run at once; the client of one holds a label SELECT in JSON
\* while the client of the other holds its CONSTRUCT in Turtle
C16_Witness ==
    /\ main_pc = "parallel"
    /\ N = 2
    /\ w[1].pc = "triples" /\ w[2].pc = "triples"
    /\ w[1].sparql # w[2].sparql
    /\ clients[w[1].sparql].fmt = "JSON"
    /\ clients[w[1].sparql].query.kind = "select"
    /\ clients[w[2].sparql].fmt = "TURTLE"
    /\ clients[w[2].sparql].query.arg = celex_nums[2]

\* the positions whose row the orchestrator has appended
Collected == { i \in 1..N : w[i].pc = "collected" }

\* C17: the progress counter always equals the number of identifiers whose
\* row has been appended, whether the call returned a row, the minimal row
\* or raised; it moves by one at a time, never exceeds the number of
\* identifiers, and equals it when the orchestrator returns.
C17_ProgressAccounting ==
    /\ [](/\ pbar = Cardinality(Collected)
          /\ main_pc # "main" => pbar = Len(rows) - 1
          /\ pbar <= N
          /\ Returns => pbar = N)
    /\ [][pbar' # pbar =>
            /\ pbar' = pbar + 1
            /\ Cardinality({ i \in 1..N : w[i].pc = "done"
                                          /\ w'[i].pc = "collected" }) = 1]_vars

\* the run has returned with both ticks, one for a call that raised and one
\* for a call that returned the minimal row
C17_Witness ==
    /\ main_pc = "save"
    /\ N = 2
    /\ pbar = 2
    /\ \E i \in 1..2 : w[i].exc
    /\ \E i \in 1..2 : ~ w[i].exc /\ w[i].ret = MinimalRow(celex_nums[i])

Spaces(n) == [ k \in 1..n |-> " " ]

\* the cell is nothing but whitespace
Blank(cell) == cell = Spaces(Len(cell))

\* r is the cell without the whitespace around it
TrimOf(cell, r) ==
    /\ r # << >>
    /\ r[1] # " "
    /\ r[Len(r)] # " "
    /\ Len(r) <= Len(cell)
    /\ \E a \in 0..(Len(cell) - Len(r)) :
         cell = Spaces(a) \o r \o Spaces(Len(cell) - Len(r) - a)

\* the cell reads 'celex' in any mix of cases, whitespace around it aside
IsHeader(cell) ==
    /\ Len(cell) >= 5
    /\ \E a \in 0..(Len(cell) - 5) :
         /\ \A k \in 1..Len(cell) : (k <= a \/ k > a + 5) => cell[k] = " "
         /\ cell[a + 1] \in { "c", "C" }
         /\ cell[a + 2] \in { "e", "E" }
         /\ cell[a + 3] \in { "l", "L" }
         /\ cell[a + 4] \in { "e", "E" }
         /\ cell[a + 5] \in { "x", "X" }

\* the records of the file that are neither blank nor a header
KeptRecords ==
    { n \in DOMAIN fin :
        /\ fin[n] # << >>
        /\ ~ Blank(fin[n][1])
        /\ ~ IsHeader(fin[n][1]) }

\* the k-th of them in file order
KeptAt(k) ==
    CHOOSE n \in KeptRecords : Cardinality({ m \in KeptRecords : m <= n }) = k

\* C18: read_celex_list returns, in file order, the first cell of every
\* record that is neither blank (no cells, or a first cell of whitespace
\* only) nor a header (first cell 'celex' in any case), with the whitespace
\* around it removed and its case kept; nothing else is dropped, and every
\* identifier returned is non-empty and trimmed.
C18_IdentifierLoading ==
    fout # << >> =>
        /\ Len(fout[1]) = Cardinality(KeptRecords)
        /\ \A k \in DOMAIN fout[1] : TrimOf(fin[KeptAt(k)][1], fout[1][k])

\* an upper-case header with whitespace around it, then ' 3 ' and 'X': the
\* header is skipped, '3' and 'X' are returned in that order
C18_Witness ==
    /\ fin = << << << " ", "C", "e", "l", "e", "x", " " >> >>,
                << << " ", "3", " " >> >>,
                << << "X" >> >> >>
    /\ fout = << << << "3" >>, << "X" >> >> >>

\* C19: process_celex is entered once for every position of the list: the
\* invocations made so far (one client each) are as many as the positions
\* entered, and at the return every position has been entered and collected.
\* The table is written once, after the return, with the header and one row
\* per position; nothing is written before.
C19_Lifecycle ==
    /\ Len(clients) = Cardinality({ i \in 1..N : Started(i) })
    /\ Returns => \A i \in 1..N : Started(i) /\ w[i].pc = "collected"
    /\ Len(out) <= 1
    /\ main_pc = "exit" <=> Len(out) = 1
    /\ out # << >> =>
         /\ \A i \in 1..N : w[i].pc = "collected"
         /\ out[1] = rows
         /\ Len(out[1]) = N + 1

\* the list names one identifier twice: each position had its own
\* invocation, and the table was written once with both rows
C19_Witness ==
    /\ main_pc = "exit"
    /\ N = 2
    /\ celex_nums[1] = celex_nums[2]
    /\ MAX_WORKERS = 2
    /\ Len(clients) = 2
    /\ Len(out) = 1
    /\ Len(out[1]) = 3

\* the first attempt that does not raise is attempt k and finds no binding
EmptyAnswerAt(script, k) ==
    FirstSuccess(script, k) /\ script[k].bindings = << >>

\* C20: a label lookup whose query is answered with zero bindings returns ''
\* at that answer: no query and no sleep follows it, so a lookup answered at
\* once issues exactly one query and never sleeps; the call takes '' as the
\* label and goes on, nothing being raised.
C20_EmptyLabelImmediate ==
    LastIs({ "label" }) =>
        LET e == log.last[1]
        IN  \A k \in 1..MaxAttempts :
                EmptyAnswerAt(e.script, k) =>
                    /\ e.res.ret = Empty
                    /\ e.res.net.queries = k
                    /\ Len(e.res.net.sleeps) = k - 1
                    /\ k = 1 => e.res.net = [ queries |-> 1, sleeps |-> << >> ]
                    /\ ~ w[1].exc
                    /\ \E n \in DOMAIN log.order :
                         [ t |-> log.order[n], lbl |-> Empty ] \in log.resolved

\* a lookup answered at once with no binding: one query, no sleep, ''
C20_Witness ==
    /\ LastIs({ "label" })
    /\ EmptyAnswerAt(log.last[1].script, 1)
    /\ log.last[1].res.net = [ queries |-> 1, sleeps |-> << >> ]
    /\ log.last[1].res.ret = Empty
    /\ w[1].pc = "triples"

\* C21: a label lookup whose attempts all fail issues exactly 4 queries and
\* gives '' as the label; nothing is raised, every triple of the graph is
\* still taken, and the row returned holds for every key the values the
\* graph gave it.
C21_LabelExhaustion ==
    (LastIs({ "label" }) /\ AllFail(log.last[1].script)) =>
        /\ log.last[1].res.net.queries = 4
        /\ log.last[1].res.ret = Empty
        /\ ~ w[1].exc
        /\ \E n \in DOMAIN log.order :
             [ t |-> log.order[n], lbl |-> Empty ] \in log.resolved
        /\ w[1].pc \in { "done", "collected" } =>
             /\ ToSet(log.order) = log.graph
             /\ w[1].ret = RowInOrder(log.order)

\* the author lookup failed four times; the literal title of the same graph
\* is in the row returned and the author field is ''
C21_Witness ==
    /\ LastIs({ "label" })
    /\ AllFail(log.last[1].script)
    /\ log.last[1].res.net.queries = 4
    /\ Returned(1)
    /\ Cardinality(log.graph) = 2
    /\ w[1].ret[2] = Empty
    /\ w[1].ret[5] = ValA

\* C22: when the graph query ends with the sentinel, the call is over: it has
\* issued the graph request and no other, its client still holds the
\* CONSTRUCT query, and it returned the identifier-only row without raising.
C22_NoRequestAfterGraphFailure ==
    (LastIs({ "graph" }) /\ log.last[1].res.sentinel) =>
        /\ w[1].pc = "done"
        /\ ~ w[1].exc
        /\ w[1].ret = MinimalRow(celex_nums[1])
        /\ log.calls = << "graph" >>
        /\ log.resolved = {}
        /\ log.fallback = << >>
        /\ clients[w[1].sparql] =
             [ fmt |-> "TURTLE",
               query |-> [ kind |-> "construct", arg |-> celex_nums[1] ] ]

\* the call ended on the sentinel with the graph request as its only one
C22_Witness ==
    /\ LastIs({ "graph" })
    /\ log.last[1].res.sentinel
    /\ log.calls = << "graph" >>
    /\ w[1].pc = "done"
    /\ w[1].ret = MinimalRow(celex_nums[1])
    /\ ~ w[1].exc

\* the first page request that is answered below 500 without raising is
\* request k
FirstAnswer(script, k) ==
    /\ script[k].status = "ok"
    /\ \A a \in 1..(k - 1) : script[a].status \in { "exc", "5xx" }

\* C23: get_title_fallback requests the page at most 4 times and requests it
\* again only after a 5xx answer or an exception: the first answer below 500
\* ends it with the result of its parse (the tag's content, '' without the
\* tag), and 4 requests that all fail end it with ''.
C23_ScraperRetryPolicy ==
    LastIs({ "page" }) =>
        LET e == log.last[1]
        IN  /\ e.res.net.queries \in 1..4
            /\ \A k \in 1..4 :
                 FirstAnswer(e.script, k) =>
                     /\ e.res.net.queries = k
                     /\ Len(e.res.net.sleeps) = k - 1
                     /\ e.res.ret = IF e.script[k].meta THEN e.script[k].content
                                    ELSE Empty
            /\ (\A a \in 1..4 : e.script[a].status \in { "exc", "5xx" }) =>
                 e.res.net.queries = 4 /\ e.res.ret = Empty

\* two 5xx answers, then a page with the tag: three requests, title 'b'
C23_Witness ==
    /\ LastIs({ "page" })
    /\ log.last[1].script[1].status = "5xx"
    /\ log.last[1].script[2].status = "5xx"
    /\ FirstAnswer(log.last[1].script, 3)
    /\ log.last[1].res.net.queries = 3
    /\ log.last[1].res.ret = ValB

\* four 5xx answers: four requests and ''
C23_WitnessAll5xx ==
    /\ LastIs({ "page" })
    /\ \A a \in 1..4 : log.last[1].script[a].status = "5xx"
    /\ log.last[1].res.net.queries = 4
    /\ log.last[1].res.ret = Empty

\* the celex literals the graph of the observed call holds
GraphCelex ==
    { t.o.v : t \in { u \in log.graph : u.p = property_mapping["celex"] } }

\* C24: the first field of the row a call returns is the identifier the call
\* was given, whether the graph holds no celex literal, one or several, and
\* whatever they are.
C24_CelexIsInput ==
    w[1].pc \in { "done", "collected" } =>
        /\ CollectedRow(1)[1] = celex_nums[1]
        /\ \A v \in GraphCelex : CollectedRow(1)[1] # v

\* the graph holds the celex literals 'a' and 'b'; the row starts with the
\* identifier
C24_Witness ==
    /\ Returned(1)
    /\ GraphCelex = { ValA, ValB }
    /\ w[1].ret[1] = Ident(1)

\* the triples the graph of the observed call holds for a key
GraphTriples(key) == { t \in log.graph : t.p = property_mapping[key] }

\* C25: every triple of a key gives one element of the key's list, a
\* reference whose label is '' included: a key with one triple assembles to
\* that triple's value ('' for an empty label), a key with several to its
\* distinct values in ascending order joined by ' | ', '' being one of them
\* (so '' and 'b' give ' | b').
C25_EmptyLabelKept ==
    (Returned(1) /\ log.parsed) =>
        \A n \in 2..13 :
            LET key == metadata_header_row[n]
                T   == GraphTriples(key)
                V   == { ValueOf(t) : t \in T }
            IN  key # "title" =>
                    w[1].ret[n] =
                        IF T = {} THEN Empty
                        ELSE IF Cardinality(T) = 1 THEN CHOOSE v \in V : TRUE
                        ELSE Join(Sorted(V), FieldSep)

\* one author reference resolved to '' and the author literal 'b': ' | b'
C25_Witness ==
    /\ Returned(1)
    /\ Cardinality(GraphTriples("author")) = 2
    /\ \E r \in log.resolved : r.t \in GraphTriples("author") /\ r.lbl = Empty
    /\ w[1].ret[2] = << " ", "|", " ", "b" >>

\* an author whose only value is an empty label: ''
C25_WitnessOnlyEmpty ==
    /\ Returned(1)
    /\ Cardinality(GraphTriples("author")) = 1
    /\ \E r \in log.resolved : r.t \in GraphTriples("author") /\ r.lbl = Empty
    /\ w[1].ret[2] = Empty

\* how many label lookups the observed call has made
LabelCalls == Cardinality({ n \in DOMAIN log.calls : log.calls[n] = "label" })

\* C26: the requests of one call come in the order graph, label lookups,
\* title page: the graph request is the first and only one of its kind, a
\* label lookup is made only for a parsed graph and once per reference
\* triple, and the title page is requested at most once, as the last
\* request, when every reference of the graph has been looked up and the
\* loop is over.
C26_RequestOrder ==
    /\ \A n \in DOMAIN log.calls : log.calls[n] = "graph" <=> n = 1
    /\ \A n \in DOMAIN log.calls : log.calls[n] = "page" => n = Len(log.calls)
    /\ PageCalls <= 1
    /\ LabelCalls = Cardinality(log.resolved)
    /\ LabelCalls > 0 => log.parsed
    /\ \A r \in log.resolved : r.t \in log.graph /\ NeedsLabel(r.t)
    /\ PageCalls = 1 =>
         /\ w[1].pc = "done"
         /\ w[1].todo = {}
         /\ ToSet(log.order) = log.graph
         /\ LabelCalls = Cardinality({ t \in log.graph : NeedsLabel(t) })

\* a graph request, two label lookups, then the title page
C26_Witness == log.calls = << "graph", "label", "label", "page" >>

\* the step takes a triple whose predicate is none of the 13 configured
Unmatched(t) == t.p \notin pm_values

\* C27: the iteration of the loop over a triple whose predicate is not
\* configured changes nothing but the position in the loop: current_row and
\* the client are as before and no request is made, a reference object
\* included; no label is ever resolved for such a triple.
C27_UnmatchedTripleIgnored ==
    /\ [](\A r \in log.resolved : ~ Unmatched(r.t))
    /\ [][\A t \in w[1].todo \ w'[1].todo :
            Unmatched(t) =>
                /\ w'[1].cur = w[1].cur
                /\ w'[1].pc = w[1].pc
                /\ clients' = clients
                /\ log'.calls = log.calls
                /\ log'.resolved = log.resolved]_vars

\* the loop is over a graph of an unmatched reference triple and a literal
\* title: the row holds the title alone and the graph request was the only
\* request
C27_Witness ==
    /\ Returned(1)
    /\ log.graph = { Triple("s1", OtherPredicate, Ref(Ref1)),
                     Triple("s1", property_mapping["title"], Lit(ValA)) }
    /\ log.calls = << "graph" >>
    /\ w[1].ret = [ MinimalRow(Ident(1)) EXCEPT ![5] = ValA ]

\* C28: the effective worker count is 1 for every argument below 1 and the
\* argument itself otherwise, so it is never below 1; main enters the
\* sequential loop exactly when it is 1 and the pool exactly when it is
\* greater, and the pool never runs more calls than that.
C28_WorkerCount ==
    /\ [](/\ MAX_WORKERS >= 1
          /\ workers < 1 => MAX_WORKERS = 1
          /\ workers >= 1 => MAX_WORKERS = workers
          /\ main_pc = "sequential" => workers <= 1
          /\ main_pc = "parallel" =>
               /\ workers > 1
               /\ Cardinality({ i \in 1..N : Running(i) }) <= workers)
    /\ [][(main_pc = "main" /\ N > 0) =>
            main_pc' = IF workers <= 1 THEN "sequential" ELSE "parallel"]_vars

\* a negative argument: the sequential loop is running its second call
C28_Witness ==
    /\ workers < 0
    /\ main_pc = "sequential"
    /\ N = 2
    /\ w[1].pc = "collected"
    /\ Running(2)

\* C29: the list read_celex_list returns holds no identifier twice.
C29_LoaderDeduplicates ==
    fout # << >> =>
        \A m \in DOMAIN fout[1] : \A n \in DOMAIN fout[1] :
            fout[1][m] = fout[1][n] => m = n

\* 0.8, 1.6, 3.2, 6.4 s
Schedule == << 80, 160, 320, 640 >>

\* C30: in hundredths of a second, the sleep after failed attempt a is
\* Schedule[a + 1] plus the jitter: 0.8, 1.6, 3.2, 6.4 s before jitter,
\* which never decreases with a and never exceeds the 8 s cap; the jitter is
\* between 0 and 0.3 s, so no sleep exceeds 8.3 s.
C30_BackoffSchedule ==
    fout # << >> =>
        LET a     == fin.attempt
            delay == fout[1] - fin.jitter
        IN  /\ a \in 0..3
            /\ delay = Schedule[a + 1]
            /\ delay = MinOf(800, 80 * (2 ^ a))
            /\ \A b \in 0..a : Schedule[b + 1] <= delay
            /\ delay <= 800
            /\ fin.jitter \in 0..30
            /\ fout[1] \in delay..(delay + 30)
            /\ fout[1] <= 830

\* the sleep after the fourth failure with the largest jitter: 6.7 s
C30_Witness ==
    /\ fin = [ attempt |-> 3, jitter |-> 30 ]
    /\ fout = << 670 >>

\* attempt a of the observed request failed: the query raised, or the page
\* request raised or was answered 5xx
FailedAt(e, a) ==
    IF e.kind = "page" THEN e.script[a].status \in { "exc", "5xx" }
    ELSE e.script[a].err

\* C31: in each of the three retry loops backoff_sleep(attempt) follows
\* every failed attempt, the fourth included: a request whose 4 attempts
\* fail has slept 4 times, for attempts 0, 1, 2, 3, and a request that first
\* succeeds at attempt k has slept k - 1 times, for attempts 0 .. k - 2.
C31_SleepAfterEveryFailure ==
    LastIs({ "graph", "label", "page" }) =>
        LET e == log.last[1]
        IN  /\ (\A a \in 1..4 : FailedAt(e, a)) =>
                 /\ e.res.net.queries = 4
                 /\ e.res.net.sleeps = << 0, 1, 2, 3 >>
            /\ \A k \in 1..4 :
                 (~ FailedAt(e, k) /\ \A a \in 1..(k - 1) : FailedAt(e, a)) =>
                     /\ Len(e.res.net.sleeps) = k - 1
                     /\ \A n \in 1..(k - 1) : e.res.net.sleeps[n] = n - 1

\* a label lookup that failed four times and slept four times
C31_Witness ==
    /\ LastIs({ "label" })
    /\ \A a \in 1..4 : FailedAt(log.last[1], a)
    /\ log.last[1].res.net.sleeps = << 0, 1, 2, 3 >>
    /\ log.last[1].res.ret = Empty

\* a page request answered at the third attempt after two sleeps
C31_WitnessThird ==
    /\ LastIs({ "page" })
    /\ ~ FailedAt(log.last[1], 3)
    /\ log.last[1].res.net.sleeps = << 0, 1 >>

\* R: the reference triples of the parsed graph whose predicate is configured
References == IF fin = << >> THEN {} ELSE { t \in fin[1] : NeedsLabel(t) }

\* C32: whatever fails, one call issues at most 4 graph queries, at most 4
\* label queries for each reference triple it has taken (so at most 4 * R),
\* and at most 4 page requests: at most 4 * (R + 2) requests in all.
C32_BoundedWork ==
    LET R     == Cardinality(References)
        taken == Cardinality({ t \in References : t \notin w[1].todo })
    IN  /\ fout[1].graph <= 4
        /\ fout[1].label <= 4 * taken
        /\ fout[1].label <= 4 * R
        /\ fout[1].page <= 4
        /\ fout[1].graph + fout[1].label + fout[1].page <= 4 * (R + 2)

\* the worst case for two references: the graph came at the fourth query,
\* both lookups and the page request failed four times each
C32_Witness ==
    /\ w[1].pc = "done"
    /\ Cardinality(References) = 2
    /\ fout[1] = [ graph |-> 4, label |-> 8, page |-> 4 ]

\* the value holds no '|' and no whitespace at either end
Plain(v) ==
    /\ \A n \in 1..Len(v) : v[n] # "|"
    /\ v # Empty => v[1] # " " /\ v[Len(v)] # " "

\* C33: when no value of a list holds '|' or begins or ends with whitespace,
\* the field assembled from the list, split on '|' with every part stripped
\* and the empty parts dropped, is the set of the distinct non-empty values
\* of the list.
C33_DelimiterRoundTrip ==
    (fout # << >> /\ \A n \in DOMAIN fin : Plain(fin[n])) =>
        fout[1] = ToSet(fin) \ { Empty }

\* 'b a', '' and 'a' are assembled to ' | a | b a' and read back as
\* 'a' and 'b a'
C33_Witness ==
    /\ fin = << << "b", " ", "a" >>, Empty, ValA >>
    /\ NormalizeField(fin) =
         << " ", "|", " ", "a", " ", "|", " ", "b", " ", "a" >>
    /\ fout = << { ValA, << "b", " ", "a" >> } >>

=============================================================================
